---- MODULE Spec2Model ----
(***************************************************************************)
(* A model of main_trainer.py: the n-gram training pipeline (main), its    *)
(* shard task (train_ngram), the in-place merge of two frequency tables    *)
(* (merge_grams), the pairwise reduction (merge_models_incrementally) and  *)
(* the vocabulary bootstrap (load_or_create_vocabulary).                   *)
(*                                                                         *)
(* Four specifications share the module:                                   *)
(*   SpecMerge   merge_grams applied to Ngram objects held in a heap       *)
(*   SpecReduce  merge_models_incrementally on a list of such objects      *)
(*   SpecVocab   load_or_create_vocabulary over successive runs            *)
(*   Spec        one run of main() over a project directory                *)
(***************************************************************************)
EXTENDS Integers, Sequences, FiniteSets, TLC

\* ------------------------------------------------------------------ bounds

\* Largest sum of the counts of one input table of SpecMerge.
MaxTotal == 2

\* Most documents of a corpus, and most tokens of a corpus (all documents together).
MaxDocs == 2

MaxTokens == 3

\* Largest n-gram order a configuration asks for.
MaxOrder == 2

\* Most successive runs of SpecVocab.
MaxRuns == 2

\* The longest list merge_models_incrementally is called on.
MaxParts == 4

\* The tokens of the modelled corpora.
Words == {"a", "b"}

\* Token ids: dense, starting at 0.
Ids == 0 .. (Cardinality(Words) - 1)

\* ------------------------------------------------------- frequency tables
\* chain_frequency is a dict: context (tuple of ids) -> dict: next id -> count.
\* A table VALUE is a function whose domain is the set of contexts present,
\* each mapped to a function whose domain is the set of next ids present.

EmptyTable == [c \in {} |-> 0]

RECURSIVE SumOver(_, _)
SumOver(f, S) ==
  IF S = {} THEN 0
  ELSE LET x == CHOOSE y \in S : TRUE IN f[x] + SumOver(f, S \ {x})

\* The count a table holds for (context, next): 0 where absent.
CountOf(t, c, x) ==
  IF c \in DOMAIN t /\ x \in DOMAIN t[c] THEN t[c][x] ELSE 0

\* ---------------------------------------------------- the heap of objects
\* Python objects are shared by reference: a store holds
\*   grams : Ngram object id -> (context -> reference to an inner dict)
\*   dicts : reference -> (next id -> count)
\* The inner dict first created for object o at context c has reference <<o, c>>.

Refs(tables) == UNION {{<<o, c>> : c \in DOMAIN tables[o]} : o \in DOMAIN tables}

\* A store of fresh objects, object o holding tables[o].
StoreOf(tables) ==
  [ grams |-> [o \in DOMAIN tables |-> [c \in DOMAIN tables[o] |-> <<o, c>>]],
    dicts |-> [r \in Refs(tables) |-> tables[r[1]][r[2]]] ]

\* The contents of object o: its nested dict, by value.
Content(s, o) == [c \in DOMAIN s.grams[o] |-> s.dicts[s.grams[o][c]]]

\* f with key k bound to v (a dict assignment d[k] = v).
Put(f, k, v) == [x \in (DOMAIN f) \cup {k} |-> IF x = k THEN v ELSE f[x]]

\* A mutation of line 123: `=` for `+=`.
MergeSubKey_assign(s, r1, r2, sub_key) ==
  [s EXCEPT !.dicts[r1] = Put(@, sub_key, s.dicts[r2][sub_key])]

\* Lines 120-123: one iteration of the inner loop, on the dicts r1 (gram1's) and
\* r2 (gram2's, the one iterated). sub_value is read when the item is reached.
MergeSubKey(s, r1, r2, sub_key) ==
  LET sub_value == s.dicts[r2][sub_key] IN
  IF sub_key \notin DOMAIN s.dicts[r1]
  THEN [s EXCEPT !.dicts[r1] = Put(@, sub_key, sub_value)]
  ELSE [s EXCEPT !.dicts[r1] = Put(@, sub_key, @[sub_key] + sub_value)]

\* Line 119: for sub_key, sub_value in value.items()
RECURSIVE MergeSubKeys(_, _, _, _)
MergeSubKeys(s, r1, r2, todo) ==
  IF todo = {} THEN s
  ELSE LET k == CHOOSE x \in todo : TRUE
       IN MergeSubKeys(MergeSubKey(s, r1, r2, k), r1, r2, todo \ {k})

\* A mutation of lines 116-117: a context gram1 lacks is not taken over.
MergeKey_known(s, gram1, gram2, key) ==
  IF key \notin DOMAIN s.grams[gram1] THEN s
  ELSE MergeSubKeys(s, s.grams[gram1][key], s.grams[gram2][key],
                    DOMAIN s.dicts[s.grams[gram2][key]])

\* Lines 116-123: one iteration of the outer loop. An absent context gets
\* gram2's inner dict itself (the reference, not a copy).
MergeKey(s, gram1, gram2, key) ==
  LET value == s.grams[gram2][key] IN
  IF key \notin DOMAIN s.grams[gram1]
  THEN [s EXCEPT !.grams[gram1] = Put(@, key, value)]
  ELSE MergeSubKeys(s, s.grams[gram1][key], value, DOMAIN s.dicts[value])

\* Line 115: for key, value in gram2.chain_frequency.items()
RECURSIVE MergeKeys(_, _, _, _)
MergeKeys(s, gram1, gram2, todo) ==
  IF todo = {} THEN s
  ELSE LET k == CHOOSE x \in todo : TRUE
       IN MergeKeys(MergeKey(s, gram1, gram2, k), gram1, gram2, todo \ {k})

\* merge_grams(gram1, gram2): mutates gram1 in the store and returns gram1.
merge_grams(s, gram1, gram2) ==
  MergeKeys(s, gram1, gram2, DOMAIN s.grams[gram2])


\* -------------------------------------------------------------- documents
\* A document is modelled after tokenisation: the sequence of its tokens.
\* preprocessing (lines 145-149) strips the text and turns line breaks into
\* spaces, which changes no token of a whitespace-split text.

Documents == UNION {[1 .. k -> Words] : k \in 0 .. MaxTokens}

RECURSIVE TotalLen(_)
TotalLen(c) == IF c = << >> THEN 0 ELSE Len(Head(c)) + TotalLen(Tail(c))

Corpora ==
  {c \in UNION {[1 .. k -> Documents] : k \in 0 .. MaxDocs} : TotalLen(c) <= MaxTokens}

\* ------------------------------------------------------------- vocabulary
\* module vocabulary is not part of the sources: modelled from the contract.
\* A Vocabulary is the sequence of its tokens; the id of v[i] is i - 1.

\* A file that does not exist, and the file holding body.
NoFile == [exists |-> FALSE, body |-> {}]

FileOf(body) == [exists |-> TRUE, body |-> body]

\* A local variable of main: bound to a value, or unbound (never assigned, or deleted).
Bound(v) == [bound |-> TRUE, val |-> v]

Unbound == [bound |-> FALSE, val |-> << >>]

RangeOf(q) == {q[i] : i \in DOMAIN q}

\* vocab.update(text): each token not yet known gets the next id.
RECURSIVE VocabUpdate(_, _)
VocabUpdate(v, doc) ==
  IF doc = << >> THEN v
  ELSE VocabUpdate(IF Head(doc) \in RangeOf(v) THEN v ELSE Append(v, Head(doc)), Tail(doc))

\* vocab.save(path): the artifact lists each token with its id.
VocabSave(v) == FileOf({<<v[i], i - 1>> : i \in DOMAIN v})

\* vocab.load(path)
VocabLoad(f) == [i \in 1 .. Cardinality(f.body) |-> (CHOOSE e \in f.body : e[2] = i - 1)[1]]

IdOf(v, w) == (CHOOSE i \in DOMAIN v : v[i] = w) - 1

\* vocab.chain_to_ids(text): a token absent from the vocabulary is rejected.
ChainToIds(v, doc) ==
  IF RangeOf(doc) \subseteq RangeOf(v)
  THEN [ok |-> TRUE, ids |-> [i \in DOMAIN doc |-> IdOf(v, doc[i])]]
  ELSE [ok |-> FALSE, ids |-> << >>]

\* Lines 94-95: for text in data: vocab.update(str(text))
RECURSIVE UpdateAll(_, _)
UpdateAll(v, docs) ==
  IF docs = << >> THEN v ELSE UpdateAll(VocabUpdate(v, Head(docs)), Tail(docs))

\* A mutation of load_or_create_vocabulary: the artifact is ignored and rebuilt.
load_or_create_vocabulary_rebuild(docs, file) ==
  LET v == UpdateAll(<< >>, docs) IN [vocab |-> v, file |-> VocabSave(v)]

\* load_or_create_vocabulary(data, name): the vocabulary returned and the
\* artifact data/vocabs/<name>.vocab after the call.
load_or_create_vocabulary(docs, file) ==
  IF file # NoFile
  THEN [vocab |-> VocabLoad(file), file |-> file]
  ELSE LET v == UpdateAll(<< >>, docs) IN [vocab |-> v, file |-> VocabSave(v)]

\* --------------------------------------------------------------- SpecVocab
\* Successive runs of the program under one project name, each with a corpus
\* of its own, up to the vocabulary bootstrap of line 166.

VARIABLES
  runNo,       \* the runs made so far
  runData,     \* the corpus of the latest run
  runVocab,    \* the vocabulary load_or_create_vocabulary returned to it
  prevVocab,   \* the vocabulary of the run before it
  fileAtCall,  \* the vocabulary artifact as the latest run found it
  runFile      \* the vocabulary artifact now

vocVars == <<runNo, runData, runVocab, prevVocab, fileAtCall, runFile>>

InitVocab ==
  /\ runNo = 0
  /\ runData = << >>
  /\ runVocab = << >>
  /\ prevVocab = << >>
  /\ fileAtCall = NoFile
  /\ runFile = NoFile

RunBootstrap ==
  /\ runNo < MaxRuns
  /\ \E d \in Corpora :
       LET res == load_or_create_vocabulary(d, runFile)
       IN /\ runData' = d
          /\ runVocab' = res.vocab
          /\ runFile' = res.file
  /\ prevVocab' = runVocab
  /\ fileAtCall' = runFile
  /\ runNo' = runNo + 1


RECURSIVE Flatten(_)
Flatten(docs) == IF docs = << >> THEN << >> ELSE Head(docs) \o Flatten(Tail(docs))

FirstPos(q, w) == CHOOSE i \in DOMAIN q : q[i] = w /\ \A j \in 1 .. (i - 1) : q[j] # w

\* v holds exactly the tokens of docs, each once, in the order of their first
\* occurrence in the corpus.
BuiltInCorpusOrder(v, docs) ==
  LET flat == Flatten(docs) IN
  /\ RangeOf(v) = RangeOf(flat)
  /\ \A i, j \in DOMAIN v : i < j => FirstPos(flat, v[i]) < FirstPos(flat, v[j])

\* C8: an existing vocabulary artifact is loaded, and neither updated from the
\* corpus nor rewritten; a missing one is built from the documents in corpus
\* order and saved; so a run uses the vocabulary of the run before it.
C8_VocabularyStable ==
  runNo >= 1 =>
    /\ fileAtCall # NoFile => (runVocab = VocabLoad(fileAtCall) /\ runFile = fileAtCall)
    /\ fileAtCall = NoFile =>
          (BuiltInCorpusOrder(runVocab, runData) /\ VocabLoad(runFile) = runVocab)
    /\ runNo >= 2 => runVocab = prevVocab

C8_Witness ==
  /\ runNo = 2
  /\ runVocab = prevVocab
  /\ Len(runVocab) = 2
  /\ RangeOf(Flatten(runData)) # RangeOf(runVocab)

\* --------------------------------------------------------------- SpecMerge
\* merge_grams called on Ngram objects A, B, C. Each of the three expressions
\*   merge(merge(A,B),C)   merge(A,merge(B,C))   merge(merge(B,A),C)
\* is evaluated on its own fresh copies: objects 1,2,3 / 4,5,6 / 7,8,9.
\* A second script calls merge_grams(A, A), both arguments the one object.

VARIABLES
  abc,     \* <<A, B, C>>: the contents of the three input tables
  store,   \* the heap of Ngram objects and inner dicts
  todo,    \* the merge_grams calls still to make: a sequence of <<gram1, gram2>>
  last     \* the last call: operands' contents before it, and the object returned;
           \* firsts: the objects passed as gram1 so far

algVars == <<abc, store, todo, last>>

AlgContexts == {<<i>> : i \in Ids}

Pairs == AlgContexts \X Ids

\* The table holding the non-zero counts of f : Pairs -> Nat.
TableOf(f) ==
  [c \in {p[1] : p \in {q \in Pairs : f[q] > 0}} |->
     [x \in {i \in Ids : f[<<c, i>>] > 0} |-> f[<<c, x>>]]]

\* Every table over AlgContexts and Ids whose counts sum to at most MaxTotal.
Tables ==
  {TableOf(f) : f \in {g \in [Pairs -> 0 .. MaxTotal] : SumOver(g, Pairs) <= MaxTotal}}

NoCall == [made |-> FALSE, firsts |-> {}]

AssocScript == << <<1, 2>>, <<1, 3>>, <<5, 6>>, <<4, 5>>, <<8, 7>>, <<8, 9>> >>

SelfScript == << <<1, 1>> >>

Scripts == {AssocScript, SelfScript}

\* The contents object o was created with.
Orig(o) == abc[((o - 1) % 3) + 1]

InitMerge ==
  /\ abc \in Tables \X Tables \X Tables
  /\ store = StoreOf([o \in 1 .. 9 |-> abc[((o - 1) % 3) + 1]])
  /\ todo \in Scripts
  /\ last = NoCall

\* One call merge_grams(gram1, gram2) of the script.
MergeCall ==
  /\ todo # << >>
  /\ LET gram1 == Head(todo)[1]
         gram2 == Head(todo)[2]
     IN /\ store' = merge_grams(store, gram1, gram2)
        /\ last' = [made |-> TRUE, g1 |-> gram1, g2 |-> gram2,
                    a |-> Content(store, gram1), b |-> Content(store, gram2),
                    r |-> gram1, firsts |-> last.firsts \cup {gram1}]
  /\ todo' = Tail(todo)
  /\ UNCHANGED abc


\* The sum of two tables as the contract states it: a context of either operand,
\* a next id of either operand's map for it, the two counts added.
TablePlus(a, b) ==
  [c \in (DOMAIN a) \cup (DOMAIN b) |->
     [x \in (IF c \in DOMAIN a THEN DOMAIN a[c] ELSE {})
            \cup (IF c \in DOMAIN b THEN DOMAIN b[c] ELSE {}) |->
        CountOf(a, c, x) + CountOf(b, c, x)]]

\* C1: merge_grams(a, b) returns the table whose contexts and next ids are those
\* of either operand and whose every count is a's count plus b's count.
C1_MergeIsSum ==
  (last.made /\ last.g1 # last.g2) => Content(store, last.r) = TablePlus(last.a, last.b)

C1_Witness ==
  /\ last.made
  /\ \E c \in DOMAIN last.a \cap DOMAIN last.b :
        \E x \in DOMAIN last.a[c] \cap DOMAIN last.b[c] :
           Content(store, last.r)[c][x] = last.a[c][x] + last.b[c][x]
  /\ \E c \in DOMAIN last.b : c \notin DOMAIN last.a

\* C2: on fresh copies of A, B, C the three expressions have equal contents.
C2_AssocComm ==
  (todo = << >> /\ last.made /\ last.r = 8) =>
     /\ Content(store, 1) = Content(store, 4)
     /\ Content(store, 4) = Content(store, 8)

C2_Witness ==
  /\ todo = << >>
  /\ last.made /\ last.r = 8
  /\ \A i \in 1 .. 3 : abc[i] # EmptyTable
  /\ abc[1] # abc[2] /\ abc[2] # abc[3] /\ abc[1] # abc[3]
  /\ Content(store, 1) = Content(store, 8)

\* Every count of t doubled.
Doubled(t) == [c \in DOMAIN t |-> [x \in DOMAIN t[c] |-> 2 * t[c][x]]]

\* C12: merge_grams is not idempotent: merging a table with itself (with an
\* equal table, or with the very same object) doubles every count, so a table
\* that holds a count comes out different.
C12_NotIdempotent ==
  (last.made /\ last.a = last.b) =>
     /\ Content(store, last.r) = Doubled(last.a)
     /\ last.a # EmptyTable => Content(store, last.r) # last.a

C12_Witness ==
  /\ last.made
  /\ last.g1 = last.g2
  /\ last.a # EmptyTable
  /\ Content(store, last.r) = Doubled(last.a)

\* C14: merge_grams leaves its second operand as it was: an object that was
\* never passed as gram1 keeps the contents it was created with, also after
\* later calls on the table returned.
C14_SecondOperandUntouched ==
  \A o \in DOMAIN store.grams : o \notin last.firsts => Content(store, o) = Orig(o)

\* The part of C14 that holds: when merge_grams returns, gram2 is as it was
\* before that call.
SecondOperandUntouchedOnReturn ==
  (last.made /\ last.g1 # last.g2) => Content(store, last.g2) = last.b

\* C19: the empty table is a two-sided identity of merge_grams.
C19_EmptyIsIdentity ==
  last.made =>
     /\ last.a = EmptyTable => Content(store, last.r) = last.b
     /\ last.b = EmptyTable => Content(store, last.r) = last.a

C19_Witness ==
  /\ last.made
  /\ last.a = EmptyTable
  /\ last.b # EmptyTable
  /\ Content(store, last.r) = last.b
  /\ todo # << >>


\* ------------------------------------------------------------------ Ngram
\* module ngram is not part of the sources: modelled from the contract.

\* table[context][next] += 1
Increment(t, c, x) ==
  Put(t, c, Put(IF c \in DOMAIN t THEN t[c] ELSE EmptyTable, x, CountOf(t, c, x) + 1))

\* gram.train(ids) from position i on: every window of `order` ids counts its
\* last id under the order-1 ids before it; a shorter sequence counts nothing.
RECURSIVE TrainFrom(_, _, _, _)
TrainFrom(t, ids, order, i) ==
  IF i > Len(ids) THEN t
  ELSE TrainFrom(Increment(t, SubSeq(ids, i - order + 1, i - 1), ids[i]), ids, order, i + 1)

NgramTrain(t, ids, order) == TrainFrom(t, ids, order, order)

\* gram.save(path): the artifact lists every (context, next, count).
NgramSave(t) == UNION {{<<c, x, t[c][x]>> : x \in DOMAIN t[c]} : c \in DOMAIN t}

\* gram.load(path)
NgramLoad(f) ==
  [c \in {e[1] : e \in f} |->
     [x \in {e[2] : e \in {d \in f : d[1] = c}} |->
        (CHOOSE e \in f : e[1] = c /\ e[2] = x)[3]]]

\* ------------------------------------------------------------ train_ngram
\* train_ngram(n, text, vocab) called with the positional arguments args:
\* whether it ran to its end, and the artifact it staged. A call that does
\* not bind all three parameters raises TypeError before the body runs.
train_ngram(args) ==
  IF Len(args) # 3 THEN [ok |-> FALSE, file |-> {}]
  ELSE LET enc == ChainToIds(args[3], args[2]) IN
       IF ~enc.ok THEN [ok |-> FALSE, file |-> {}]
       ELSE [ok |-> TRUE, file |-> NgramSave(NgramTrain(EmptyTable, enc.ids, args[1]))]

\* A mutation of line 240: gram_final = sub_gram.
MergeLoaded_assign(final, sub) == sub

\* Line 240 in main: gram_final = merge_grams(gram_final, sub_gram), where
\* sub_gram was just loaded and is dropped after the call, so that no other
\* name refers to the inner dicts the two share.
MergeLoaded(final, sub) == Content(merge_grams(StoreOf(<<final, sub>>), 1, 2), 1)

\* ------------------------------------------- the state of SpecReduce
\* merge_models_incrementally(models_to_merge), see SpecReduce below.

VARIABLES
  given,      \* history: the contents of the tables of the list passed
  to_merge,   \* the local models_to_merge: a list of objects
  rounds,     \* history: the iterations of the while loop made
  returned    \* the object returned, NotReturned before

redVars == <<given, to_merge, rounds, returned>>

\* ------------------------------------------------------------------- Spec
\* One run of main() in a project directory that earlier runs may have used.

VARIABLES
  pc,               \* where main is
  config,           \* config.json as loaded
  data,             \* the local `data` of main, Unbound after `del data`
  vocab,            \* the local `vocab` of main, Unbound after `del vocab`
  vocabFile,        \* data/vocabs/<name>.vocab
  staging,          \* data/temp/*.tmp: staging name -> artifact
  models,           \* data/ngram/<name>/<n>/model_<n>.ngram: order -> artifact
  n,                \* the loop variable
  tasks,            \* per document: 0 not run, -1 failed, else the name it staged under
  models_to_merge,  \* the listing of line 232 still to be merged
  gram_final,       \* the table of line 236 (empty while the name is unbound)
  corpus,           \* history: the corpus and vocabulary built before the loop
  partials,         \* history: what the shard tasks of order n staged
  mergedLog,        \* history: the staging names loaded and merged, in order
  persisted,        \* history: order -> the FinalModel artifact this run wrote for it
  failedOrders,     \* history: the orders one of whose shard tasks failed
  removedAtStart    \* history: the staging artifacts line 185 removed for order n

pipeVars == <<pc, config, data, vocab, vocabFile, staging, models, n, tasks,
              models_to_merge, gram_final, corpus, partials, mergedLog,
              persisted, failedOrders, removedAtStart>>

Orders == 1 .. MaxOrder

NoOrder == 0

\* The staging names uuid4 can produce.
Names == 1 .. MaxDocs

Configs ==
  [dask_distributed : BOOLEAN, parallelize : BOOLEAN,
   ngram_range_min : Orders, ngram_range_max : Orders]

NoConfig == [dask_distributed |-> FALSE, parallelize |-> FALSE,
             ngram_range_min |-> NoOrder, ngram_range_max |-> NoOrder]

\* Artifacts an earlier run left behind: a FinalModel for every order and,
\* the run having been interrupted, one staged partial.
StaleFile == {<<(<< >>), 0, 7>>}

OldModelFile == {<<(<< >>), 0, 9>>}

PriorVocabFile == VocabSave(<<"b">>)

InitPipe ==
  /\ pc = "start"
  /\ config = NoConfig
  /\ data = Unbound
  /\ vocab = Unbound
  /\ vocabFile \in {NoFile, PriorVocabFile}
  /\ \E earlier \in BOOLEAN :
       /\ staging = [nm \in (IF earlier THEN {1} ELSE {}) |-> StaleFile]
       /\ models = [k \in (IF earlier THEN Orders ELSE {}) |-> OldModelFile]
  /\ n = NoOrder
  /\ tasks = << >>
  /\ models_to_merge = << >>
  /\ gram_final = EmptyTable
  /\ corpus = [data |-> << >>, vocab |-> << >>]
  /\ partials = EmptyTable
  /\ mergedLog = << >>
  /\ persisted = EmptyTable
  /\ failedOrders = {}
  /\ removedAtStart = EmptyTable

\* A mutation of os.remove: the file stays.
os_remove_keeps(dir, path) == dir

\* os.remove(path) on the directory dir.
os_remove(dir, path) == [k \in (DOMAIN dir) \ {path} |-> dir[k]]

\* [os.remove(path) for path in glob(...)]
RECURSIVE remove_all(_, _)
remove_all(dir, paths) ==
  IF paths = {} THEN dir
  ELSE LET q == CHOOSE x \in paths : TRUE IN remove_all(os_remove(dir, q), paths \ {q})

\* uuid.uuid4(): a name no staged artifact bears.
uuid4(dir) == Names \ DOMAIN dir

\* Lines 23-38: load_config fails, and the process exits with status 1.
LoadConfigFails ==
  /\ pc = "start"
  /\ pc' = "exit1"
  /\ UNCHANGED <<algVars, vocVars, redVars, removedAtStart, config, data, vocab, vocabFile, staging, models, n, tasks,
                 models_to_merge, gram_final, corpus, partials, mergedLog,
                 persisted, failedOrders>>

\* Lines 158-159: the configuration is loaded.
LoadConfig ==
  /\ pc = "start"
  /\ \E c \in Configs : config' = c
  /\ pc' = "configured"
  /\ UNCHANGED <<algVars, vocVars, redVars, removedAtStart, data, vocab, vocabFile, staging, models, n, tasks,
                 models_to_merge, gram_final, corpus, partials, mergedLog,
                 persisted, failedOrders>>

\* A mutation of main: line 185, the removal of data/temp/*.tmp, comes before
\* load_data.
LoadDataFails_after_clear ==
  /\ pc = "configured"
  /\ staging' = remove_all(staging, DOMAIN staging)
  /\ pc' = "exit1"
  /\ UNCHANGED <<algVars, vocVars, redVars, removedAtStart, config, data, vocab, vocabFile, models, n, tasks,
                 models_to_merge, gram_final, corpus, partials, mergedLog,
                 persisted, failedOrders>>

\* Lines 40-69: load_data fails, and the process exits with status 1.
LoadDataFails ==
  /\ pc = "configured"
  /\ pc' = "exit1"
  /\ UNCHANGED <<algVars, vocVars, redVars, removedAtStart, config, data, vocab, vocabFile, staging, models, n, tasks,
                 models_to_merge, gram_final, corpus, partials, mergedLog,
                 persisted, failedOrders>>

\* Lines 160-166: the corpus is loaded and preprocessed, the vocabulary is
\* loaded or built.
LoadDataAndVocabulary ==
  /\ pc = "configured"
  /\ \E d \in Corpora :
       LET res == load_or_create_vocabulary(d, vocabFile)
       IN /\ data' = Bound(d)
          /\ vocab' = Bound(res.vocab)
          /\ vocabFile' = res.file
          /\ corpus' = [data |-> d, vocab |-> res.vocab]
          /\ tasks' = [i \in DOMAIN d |-> 0]
  /\ pc' = "loop"
  /\ UNCHANGED <<algVars, vocVars, redVars, removedAtStart, config, staging, models, n, models_to_merge, gram_final,
                 partials, mergedLog, persisted, failedOrders>>

NextN == IF n = NoOrder THEN config.ngram_range_min ELSE n + 1

\* A mutation of lines 184-186: line 185 is left out.
BeginOrder_no_clear ==
  /\ pc = "loop"
  /\ NextN <= config.ngram_range_max
  /\ n' = NextN
  /\ tasks' = [i \in DOMAIN tasks |-> 0]
  /\ partials' = EmptyTable
  /\ mergedLog' = << >>
  /\ removedAtStart' = EmptyTable
  /\ pc' = "dispatch"
  /\ UNCHANGED <<algVars, vocVars, redVars, config, data, vocab, vocabFile, staging, models,
                 models_to_merge, gram_final, corpus, persisted, failedOrders>>

\* Lines 184-186: the next order starts, stale staging artifacts are removed.
BeginOrder ==
  /\ pc = "loop"
  /\ NextN <= config.ngram_range_max
  /\ n' = NextN
  /\ staging' = remove_all(staging, DOMAIN staging)
  /\ tasks' = [i \in DOMAIN tasks |-> 0]
  /\ partials' = EmptyTable
  /\ mergedLog' = << >>
  /\ removedAtStart' = staging
  /\ pc' = "dispatch"
  /\ UNCHANGED <<algVars, vocVars, redVars, config, data, vocab, vocabFile, models, models_to_merge,
                 gram_final, corpus, persisted, failedOrders>>

\* Line 184: the range is exhausted, main returns.
Finish ==
  /\ pc = "loop"
  /\ NextN > config.ngram_range_max
  /\ pc' = "done"
  /\ UNCHANGED <<algVars, vocVars, redVars, removedAtStart, config, data, vocab, vocabFile, staging, models, n, tasks,
                 models_to_merge, gram_final, corpus, partials, mergedLog,
                 persisted, failedOrders>>

\* Lines 195, 199, 213: `for text in data` with `data` deleted by line 224 of
\* the iteration before: UnboundLocalError ends main.
DispatchUnbound ==
  /\ pc = "dispatch"
  /\ ~data.bound
  /\ pc' = "crashed"
  /\ UNCHANGED <<algVars, vocVars, redVars, removedAtStart, config, data, vocab, vocabFile, staging, models, n, tasks,
                 models_to_merge, gram_final, corpus, partials, mergedLog,
                 persisted, failedOrders>>

Sequential == ~config.dask_distributed /\ ~config.parallelize

LocalParallel == ~config.dask_distributed /\ config.parallelize

Distributed == config.dask_distributed

\* The positional arguments a mode calls train_ngram with, for document i:
\* lines 195 and 199 pass (n, str(text), vocab), line 213 (text, distributed_vocab).
TaskArgs(i) ==
  IF Distributed THEN <<data.val[i], vocab.val>> ELSE <<n, data.val[i], vocab.val>>

\* The documents whose task a mode may run next: in corpus order when
\* sequential (line 199), in any order on the pool or the cluster.
Runnable ==
  IF Sequential
  THEN {i \in DOMAIN tasks : tasks[i] = 0 /\ \A j \in 1 .. (i - 1) : tasks[j] > 0}
  ELSE {i \in DOMAIN tasks : tasks[i] = 0}

\* Lines 106-112: one shard task runs to its end and stages its partial, or
\* raises (from the call itself, from chain_to_ids, from writing the artifact).
\* The exception ends main at once when sequential; the pool re-raises it and
\* the cluster keeps it in the task's future.
ShardTask ==
  /\ pc = "dispatch"
  /\ data.bound
  /\ \E i \in Runnable : \E writes \in BOOLEAN :
       LET res == train_ngram(TaskArgs(i)) IN
       IF res.ok /\ writes
       THEN /\ \E unique_id \in uuid4(staging) :
                 /\ staging' = Put(staging, unique_id, res.file)
                 /\ partials' = Put(partials, unique_id, res.file)
                 /\ tasks' = [tasks EXCEPT ![i] = unique_id]
            /\ UNCHANGED <<pc, failedOrders>>
       ELSE /\ tasks' = [tasks EXCEPT ![i] = -1]
            /\ failedOrders' = failedOrders \cup {n}
            /\ pc' = IF Sequential THEN "crashed" ELSE pc
            /\ UNCHANGED <<staging, partials>>
  /\ UNCHANGED <<algVars, vocVars, redVars, removedAtStart, config, data, vocab, vocabFile, models, n, models_to_merge,
                 gram_final, corpus, mergedLog, persisted>>

\* A mutation of line 217: progress(futures) returns at once.
Join_no_wait ==
  /\ pc = "dispatch"
  /\ data.bound
  /\ \/ /\ Sequential
        /\ \A i \in DOMAIN tasks : tasks[i] > 0
        /\ pc' = "trained"
     \/ /\ LocalParallel
        /\ \A i \in DOMAIN tasks : tasks[i] > 0
        /\ pc' = "trained"
     \/ /\ LocalParallel
        /\ \E i \in DOMAIN tasks : tasks[i] = -1
        /\ pc' = "crashed"
     \/ /\ Distributed
        /\ pc' = "trained"
  /\ UNCHANGED <<algVars, vocVars, redVars, removedAtStart, config, data, vocab, vocabFile, staging, models, n, tasks,
                 models_to_merge, gram_final, corpus, partials, mergedLog,
                 persisted, failedOrders>>

\* Lines 195-217: main goes on past the dispatch. The list comprehension of
\* line 199 and Parallel(...) of line 195 return when every call has returned;
\* progress(futures) of line 217, run from a script, blocks until every future
\* has finished or erred.
Join ==
  /\ pc = "dispatch"
  /\ data.bound
  /\ \/ /\ Sequential
        /\ \A i \in DOMAIN tasks : tasks[i] > 0
        /\ pc' = "trained"
     \/ /\ LocalParallel
        /\ \A i \in DOMAIN tasks : tasks[i] > 0
        /\ pc' = "trained"
     \/ /\ LocalParallel
        /\ \E i \in DOMAIN tasks : tasks[i] = -1
        /\ pc' = "crashed"
     \/ /\ Distributed
        /\ \A i \in DOMAIN tasks : tasks[i] # 0
        /\ pc' = "trained"
  /\ UNCHANGED <<algVars, vocVars, redVars, removedAtStart, config, data, vocab, vocabFile, staging, models, n, tasks,
                 models_to_merge, gram_final, corpus, partials, mergedLog,
                 persisted, failedOrders>>

\* Lines 222-225: del vocab, del data.
ReleaseMemory ==
  /\ pc = "trained"
  /\ vocab' = Unbound
  /\ data' = Unbound
  /\ pc' = "released"
  /\ UNCHANGED <<algVars, vocVars, redVars, removedAtStart, config, vocabFile, staging, models, n, tasks, models_to_merge,
                 gram_final, corpus, partials, mergedLog, persisted, failedOrders>>

\* Lines 228-230: the output directory of n is made and its *.ngram removed.
PrepareOutput ==
  /\ pc = "released"
  /\ models' = os_remove(models, n)
  /\ pc' = "prepared"
  /\ UNCHANGED <<algVars, vocVars, redVars, removedAtStart, config, data, vocab, vocabFile, staging, n, tasks,
                 models_to_merge, gram_final, corpus, partials, mergedLog,
                 persisted, failedOrders>>

\* Every order in which a listing can name the files of S.
Listings(S) ==
  {q \in [1 .. Cardinality(S) -> S] : \A i, j \in DOMAIN q : i # j => q[i] # q[j]}

\* Lines 232-236: the staged partials are listed, gram_final starts empty.
ListPartials ==
  /\ pc = "prepared"
  /\ models_to_merge' \in Listings(DOMAIN staging)
  /\ gram_final' = EmptyTable
  /\ pc' = "merging"
  /\ UNCHANGED <<algVars, vocVars, redVars, removedAtStart, config, data, vocab, vocabFile, staging, models, n, tasks,
                 corpus, partials, mergedLog, persisted, failedOrders>>

\* A mutation of lines 237-241: line 241, os.remove(model_path), is left out.
MergeNext_no_remove ==
  /\ pc = "merging"
  /\ models_to_merge # << >>
  /\ LET model_path == Head(models_to_merge)
         sub_gram == NgramLoad(staging[model_path])
     IN /\ gram_final' = MergeLoaded(gram_final, sub_gram)
        /\ mergedLog' = Append(mergedLog, model_path)
  /\ models_to_merge' = Tail(models_to_merge)
  /\ UNCHANGED <<algVars, vocVars, redVars, removedAtStart, pc, config, data, vocab, vocabFile, staging,
                 models, n, tasks, corpus, partials, persisted, failedOrders>>

\* Lines 237-241: one partial is loaded, merged into gram_final and removed.
MergeNext ==
  /\ pc = "merging"
  /\ models_to_merge # << >>
  /\ LET model_path == Head(models_to_merge)
         sub_gram == NgramLoad(staging[model_path])
     IN /\ gram_final' = MergeLoaded(gram_final, sub_gram)
        /\ staging' = os_remove(staging, model_path)
        /\ mergedLog' = Append(mergedLog, model_path)
  /\ models_to_merge' = Tail(models_to_merge)
  /\ UNCHANGED <<algVars, vocVars, redVars, removedAtStart, pc, config, data, vocab, vocabFile, models, n, tasks, corpus,
                 partials, persisted, failedOrders>>

\* Lines 246-251: gram_final is saved as model_<n>.ngram.
SaveModel ==
  /\ pc = "merging"
  /\ models_to_merge = << >>
  /\ models' = Put(models, n, NgramSave(gram_final))
  /\ persisted' = Put(persisted, n, NgramSave(gram_final))
  /\ gram_final' = EmptyTable
  /\ pc' = "saved"
  /\ UNCHANGED <<algVars, vocVars, redVars, removedAtStart, config, data, vocab, vocabFile, staging, n, tasks,
                 models_to_merge, corpus, partials, mergedLog, failedOrders>>

\* Line 255: the staging artifacts are removed.
Cleanup ==
  /\ pc = "saved"
  /\ staging' = remove_all(staging, DOMAIN staging)
  /\ pc' = "loop"
  /\ UNCHANGED <<algVars, vocVars, redVars, removedAtStart, config, data, vocab, vocabFile, models, n, tasks,
                 models_to_merge, gram_final, corpus, partials, mergedLog,
                 persisted, failedOrders>>

Next ==
  \/ LoadConfigFails
  \/ LoadConfig
  \/ LoadDataFails
  \/ LoadDataAndVocabulary
  \/ BeginOrder
  \/ Finish
  \/ DispatchUnbound
  \/ ShardTask
  \/ Join
  \/ ReleaseMemory
  \/ PrepareOutput
  \/ ListPartials
  \/ MergeNext
  \/ SaveModel
  \/ Cleanup


\* -------------------------------------------------------------- SpecReduce
\* merge_models_incrementally(models_to_merge) called on a list of k >= 1 Ngram
\* objects of the heap `store`, objects 1 .. k, each a table of its own.

NotReturned == 0

\* The lists passed: k tables, taken in turn from three tables.
Lists ==
  {[i \in 1 .. k |-> t[((i - 1) % 3) + 1]] : k \in 1 .. MaxParts, t \in [1 .. 3 -> Tables]}

InitReduce ==
  /\ given \in Lists
  /\ store = StoreOf(given)
  /\ to_merge = [i \in DOMAIN given |-> i]
  /\ rounds = 0
  /\ returned = NotReturned
  /\ abc = << >>
  /\ todo = << >>
  /\ last = NoCall

\* A mutation of lines 132-136: model2 is appended, not the merged model.
RoundStep_keep_second(s, ms, i, new_models) ==
  IF i + 1 <= Len(ms)
  THEN [store |-> merge_grams(s, ms[i], ms[i + 1]), new_models |-> Append(new_models, ms[i + 1])]
  ELSE [store |-> s, new_models |-> Append(new_models, ms[i])]

\* A mutation of lines 137-139: an unpaired last model is dropped.
RoundStep_drop_odd(s, ms, i, new_models) ==
  IF i + 1 <= Len(ms)
  THEN [store |-> merge_grams(s, ms[i], ms[i + 1]), new_models |-> Append(new_models, ms[i])]
  ELSE [store |-> s, new_models |-> new_models]

\* Lines 132-139, the body of the for loop at position i (counted from 1):
\* merge_grams returns its first argument, which is appended.
RoundStep(s, ms, i, new_models) ==
  IF i + 1 <= Len(ms)
  THEN [store |-> merge_grams(s, ms[i], ms[i + 1]), new_models |-> Append(new_models, ms[i])]
  ELSE [store |-> s, new_models |-> Append(new_models, ms[i])]

\* Lines 131-139: for i in range(0, len(models_to_merge), 2).
RECURSIVE Round(_, _, _, _)
Round(s, ms, i, new_models) ==
  IF i > Len(ms) THEN [store |-> s, new_models |-> new_models]
  ELSE LET r == RoundStep(s, ms, i, new_models)
       IN Round(r.store, ms, i + 2, r.new_models)

\* Lines 128-141: one iteration of `while len(models_to_merge) > 1`.
TreeRound ==
  /\ returned = NotReturned
  /\ Len(to_merge) > 1
  /\ LET r == Round(store, to_merge, 1, << >>)
     IN /\ store' = r.store
        /\ to_merge' = r.new_models
  /\ rounds' = rounds + 1
  /\ UNCHANGED <<vocVars, pipeVars, abc, todo, last, given, returned>>

\* Line 143: return models_to_merge[0].
Return ==
  /\ returned = NotReturned
  /\ Len(to_merge) = 1
  /\ returned' = to_merge[1]
  /\ UNCHANGED <<vocVars, pipeVars, algVars, given, to_merge, rounds>>

NextReduce ==
  \/ TreeRound
  \/ Return

\* Lines 236-240 of main on a list of objects: every model merged in turn into
\* gram_final.
RECURSIVE FoldFrom(_, _, _)
FoldFrom(s, final, ms) ==
  IF ms = << >> THEN s
  ELSE FoldFrom(merge_grams(s, final, Head(ms)), final, Tail(ms))

\* The contents of gram_final after the linear fold over fresh objects holding
\* `tables`: object 1 is the empty gram_final, object i + 1 holds tables[i].
LinearFold(tables) ==
  LET s == StoreOf(<<EmptyTable>> \o tables)
  IN Content(FoldFrom(s, 1, [i \in DOMAIN tables |-> i + 1]), 1)

\* The pointwise sum of a list of tables.
RECURSIVE SumAll(_)
SumAll(tables) ==
  IF tables = << >> THEN EmptyTable
  ELSE TablePlus(SumAll(SubSeq(tables, 1, Len(tables) - 1)), tables[Len(tables)])

\* The least r with 2^r >= k.
CeilLog2(k) == CHOOSE r \in 0 .. k : 2 ^ r >= k /\ (r = 0 \/ 2 ^ (r - 1) < k)

vars == <<algVars, vocVars, pipeVars, redVars>>

\* ----------------------------------------------------- claims on the run

\* The table one pass of training over the whole corpus yields: one table,
\* trained on every encoded document in turn.
RECURSIVE TrainAll(_, _, _, _)
TrainAll(t, docs, v, order) ==
  IF docs = << >> THEN t
  ELSE TrainAll(NgramTrain(t, ChainToIds(v, Head(docs)).ids, order), Tail(docs), v, order)

OnePass(order) == TrainAll(EmptyTable, corpus.data, corpus.vocab, order)

AllEncodable == \A i \in DOMAIN corpus.data : ChainToIds(corpus.vocab, corpus.data[i]).ok

Done == {i \in DOMAIN tasks : tasks[i] > 0}

\* C3: with every document trained as a shard of its own and the staged
\* partials folded in the order they were listed, the FinalModel of n is the
\* table one pass over the whole corpus yields.
C3_ShardingInvariance ==
  (n \in DOMAIN persisted /\ Done = DOMAIN tasks) =>
     NgramLoad(models[n]) = OnePass(n)

C3_Witness ==
  /\ n \in DOMAIN persisted
  /\ Done = DOMAIN tasks
  /\ Len(mergedLog) = 2
  /\ \A nm \in DOMAIN partials : partials[nm] # {}
  /\ \E e \in models[n] : e[3] = 2

\* The sum of the partials staged under the names of q.
RECURSIVE SumOfPartials(_)
SumOfPartials(q) ==
  IF q = << >> THEN EmptyTable
  ELSE TablePlus(SumOfPartials(SubSeq(q, 1, Len(q) - 1)), NgramLoad(partials[q[Len(q)]]))

\* C4: within one order every partial its shard tasks staged is loaded and
\* merged exactly once, and is deleted from staging once folded in.
C4_EachPartialOnce ==
  pc \in {"merging", "saved"} =>
     LET merged == RangeOf(mergedLog)
         pending == RangeOf(models_to_merge)
     IN /\ Cardinality(merged) = Len(mergedLog)
        /\ Cardinality(pending) = Len(models_to_merge)
        /\ merged \cap pending = {}
        /\ merged \cup pending = DOMAIN partials
        /\ merged \cap DOMAIN staging = {}
        /\ pc = "merging" => gram_final = SumOfPartials(mergedLog)
        /\ pc = "saved" =>
             (merged = DOMAIN partials /\ NgramLoad(models[n]) = SumOfPartials(mergedLog))

C4_Witness ==
  /\ pc = "saved"
  /\ Len(mergedLog) = 2
  /\ DOMAIN staging = {}
  /\ models[n] # {}

\* C5: in every mode a failed shard task of order n means that no FinalModel
\* is written for n, and the FinalModels the run wrote stay as written.
C5_FailureAbortsOrder ==
  /\ \A k \in failedOrders : k \notin DOMAIN persisted
  /\ \A k \in DOMAIN persisted : k \in DOMAIN models /\ models[k] = persisted[k]

\* C6: with ngram_range_min <= ngram_range_max and no failed shard task, a run
\* that has ended has persisted a FinalModel for every order of the range, and
\* at every dispatch the corpus and the vocabulary are the ones built before
\* the loop.
C6_EveryOrderPersisted ==
  /\ (pc \in {"done", "crashed"} /\ failedOrders = {}
        /\ config.ngram_range_min <= config.ngram_range_max) =>
       DOMAIN persisted = config.ngram_range_min .. config.ngram_range_max
  /\ pc = "dispatch" =>
       (data = Bound(corpus.data) /\ vocab = Bound(corpus.vocab))

\* C7: staging is empty between orders: once the FinalModel of n is merged and
\* persisted, and when the shard tasks of the next order are about to start.
C7_StagingEmptyBetweenOrders ==
  /\ (pc \in {"saved", "loop", "done"} /\ n # NoOrder) => DOMAIN staging = {}
  /\ (pc = "dispatch" /\ \A i \in DOMAIN tasks : tasks[i] = 0) => DOMAIN staging = {}

C7_Witness ==
  /\ pc = "dispatch"
  /\ n > config.ngram_range_min
  /\ (n - 1) \in DOMAIN persisted
  /\ persisted[n - 1] # {}
  /\ DOMAIN staging = {}

\* C9: every mode calls train_ngram(n, document, vocabulary) for each
\* document, and the FinalModel persisted for an order is, in every mode, the
\* table those calls add up to.
C9_ModesAgree ==
  /\ (pc = "dispatch" /\ data.bound) =>
       \A i \in DOMAIN tasks : TaskArgs(i) = <<n, data.val[i], vocab.val>>
  /\ \A k \in DOMAIN persisted :
       AllEncodable /\ NgramLoad(persisted[k]) = OnePass(k)

\* C10: concurrent shard tasks stage under names of their own: no partial is
\* overwritten, and once the tasks of order n have all finished staging holds
\* one partial for each task dispatched.
C10_OnePartialPerTask ==
  /\ (pc \in {"dispatch", "trained"} /\ data.bound) =>
       /\ \A i, j \in Done : i # j => tasks[i] # tasks[j]
       /\ DOMAIN staging = {tasks[i] : i \in Done}
  /\ (pc = "trained" /\ ~Sequential) =>
       Cardinality(DOMAIN staging) = Cardinality(DOMAIN tasks)

\* The part of C10 the worker pool of line 195 satisfies.
LocalPoolOnePartialPerTask ==
  /\ (pc \in {"dispatch", "trained"} /\ data.bound) =>
       /\ \A i, j \in Done : i # j => tasks[i] # tasks[j]
       /\ DOMAIN staging = {tasks[i] : i \in Done}
  /\ (pc = "trained" /\ LocalParallel) =>
       Cardinality(DOMAIN staging) = Cardinality(DOMAIN tasks)

\* The artifacts of the file system: the vocabulary, staging and FinalModels.
artifacts == <<vocabFile, staging, models>>

\* C11: when load_config or load_data fails the process exits with status 1
\* before any output: the exit is reached from the loading steps only, and
\* from the start of the run to that exit no vocabulary, staging or FinalModel
\* artifact is written or deleted.
C11_LoadFailureBeforeOutput ==
  [][/\ pc' = "exit1" => pc \in {"start", "configured", "exit1"}
     /\ (pc \in {"start", "configured"} /\ pc' \in {"configured", "exit1"}) =>
          UNCHANGED artifacts
     /\ pc = "exit1" => (pc' = "exit1" /\ UNCHANGED artifacts)]_vars

C11_Witness ==
  /\ pc = "exit1"
  /\ config # NoConfig
  /\ vocabFile = NoFile
  /\ DOMAIN staging = {1} /\ staging[1] = StaleFile
  /\ DOMAIN models = Orders
  /\ ~data.bound

\* The steps of an order that come after the dispatch of its shard tasks.
AfterJoin == {"trained", "released", "prepared", "merging", "saved"}

C17_ClearAfterMerge ==
  [][(n \in DOMAIN models /\ (n \notin DOMAIN models' \/ models'[n] # models[n])) =>
       (pc = "merging" /\ models_to_merge = << >>)]_vars

\* C18: a staging artifact present when order n starts is deleted before any
\* shard task of n runs and is never merged: from the dispatch on staging holds
\* partials of n's own tasks only, only those are listed and merged, and the
\* FinalModel of n is the sum of exactly those.
C18_StaleNeverMerged ==
  /\ pc \in ({"dispatch"} \cup AfterJoin) =>
       \A nm \in DOMAIN staging : nm \in DOMAIN partials /\ staging[nm] = partials[nm]
  /\ pc \in {"merging", "saved"} =>
       RangeOf(mergedLog) \cup RangeOf(models_to_merge) \subseteq DOMAIN partials
  /\ pc = "saved" =>
       \E q \in Listings(DOMAIN partials) : NgramLoad(models[n]) = SumOfPartials(q)

C18_Witness ==
  /\ pc = "saved"
  /\ DOMAIN removedAtStart = {1} /\ removedAtStart[1] = StaleFile
  /\ Cardinality(DOMAIN partials) = 2
  /\ 1 \in RangeOf(mergedLog)
  /\ models[n] # {}
  /\ \A e \in models[n] : e[3] # 7

\* ----------------------------------------------- claims on the reduction

\* C15: the tree reduction returns a table whose contents are those of the
\* linear left fold of merge_grams over the same tables from an empty table:
\* the pointwise sum, every table of the list counted once.
C15_TreeEqualsFold ==
  returned # NotReturned =>
     /\ Content(store, returned) = LinearFold(given)
     /\ Content(store, returned) = SumAll(given)

C15_Witness ==
  /\ returned # NotReturned
  /\ Len(given) = 4
  /\ rounds = 2
  /\ \A i \in DOMAIN given : given[i] # EmptyTable
  /\ given[1] # given[2]
  /\ Content(store, returned) = LinearFold(given)

\* C16: on k >= 1 tables the reduction ends with one table after exactly
\* ceil(log2 k) rounds. A round merges the pairs at positions (2i, 2i+1) into
\* the first of each pair and carries an unpaired last table forward as it is,
\* so a list of m tables becomes one of ceil(m/2).
C16_RoundsAndPairs ==
  [][/\ to_merge' # to_merge =>
          LET m == Len(to_merge) IN
          /\ m > 1
          /\ rounds' = rounds + 1
          /\ Len(to_merge') = (m + 1) \div 2
          /\ Len(to_merge') < m
          /\ \A j \in DOMAIN to_merge' :
               /\ to_merge'[j] = to_merge[2 * j - 1]
               /\ Content(store', to_merge'[j]) =
                    IF 2 * j <= m
                    THEN TablePlus(Content(store, to_merge[2 * j - 1]),
                                   Content(store, to_merge[2 * j]))
                    ELSE Content(store, to_merge[2 * j - 1])
     /\ returned' # returned =>
          /\ Len(to_merge) = 1
          /\ returned' = to_merge[1]
          /\ rounds = CeilLog2(Len(given))]_vars

C16_Witness ==
  /\ returned # NotReturned
  /\ Len(given) = 3
  /\ rounds = 2
  /\ given[3] # EmptyTable
  /\ Content(store, returned) # Content(store, 3)

\* --------------------------------------------------------- specifications

IdleMerge ==
  /\ abc = << >>
  /\ store = [grams |-> << >>, dicts |-> << >>]
  /\ todo = << >>
  /\ last = NoCall

IdlePipe ==
  /\ pc = "idle"
  /\ config = NoConfig
  /\ data = Unbound
  /\ vocab = Unbound
  /\ vocabFile = NoFile
  /\ staging = EmptyTable
  /\ models = EmptyTable
  /\ n = NoOrder
  /\ tasks = << >>
  /\ models_to_merge = << >>
  /\ gram_final = EmptyTable
  /\ corpus = [data |-> << >>, vocab |-> << >>]
  /\ partials = EmptyTable
  /\ mergedLog = << >>
  /\ persisted = EmptyTable
  /\ failedOrders = {}
  /\ removedAtStart = EmptyTable

IdleReduce ==
  /\ given = << >>
  /\ to_merge = << >>
  /\ rounds = 0
  /\ returned = NotReturned

Init == InitPipe /\ IdleMerge /\ InitVocab /\ IdleReduce

Spec == Init /\ [][Next]_vars

NextMerge == MergeCall /\ UNCHANGED <<vocVars, pipeVars, redVars>>

InitMergeOnly == InitMerge /\ InitVocab /\ IdlePipe /\ IdleReduce

SpecMerge == InitMergeOnly /\ [][NextMerge]_vars

NextVocab == RunBootstrap /\ UNCHANGED <<algVars, pipeVars, redVars>>

InitVocabOnly == InitVocab /\ IdleMerge /\ IdlePipe /\ IdleReduce

SpecVocab == InitVocabOnly /\ [][NextVocab]_vars

InitReduceOnly == InitReduce /\ InitVocab /\ IdlePipe

SpecReduce == InitReduceOnly /\ [][NextReduce]_vars

====
